---- MODULE Spec2Model ----
(***************************************************************************)
(* Model of package filesystem (CopyDirectory): CountFiles,                *)
(* CopyFilesAndDirectory, Copy and CopyMultipleSources.                    *)
(*                                                                         *)
(* A source tree is a set of relative paths (sequences of entry names);    *)
(* os.ReadDir lists a directory sorted by name, so names are numbers and   *)
(* the listing order is the numeric order.  Every goroutine of the code is *)
(* a process of the model: the orchestrating call, the progress consumer,  *)
(* and one CopyFilesAndDirectory call per directory (the root call of each *)
(* source and one goroutine per subdirectory).  I/O failures are chosen    *)
(* when the failing system call is made, at most MaxFaults per run.        *)
(***************************************************************************)
EXTENDS Naturals, Integers, Sequences, FiniteSets, TLC

\* ------------------------------------------------------------------ bounds
MaxName == 2        \* entry names per directory: 1..MaxName
MaxDepth == 2       \* longest relative path of an entry
MaxEntries == 3     \* entries (files and directories) of all sources together
MaxFaults == 2      \* I/O failures per run
MaxSources == 2     \* len(sources) of CopyMultipleSources
MaxBufferSize == 1  \* cd.BufferSize ranges over 0..MaxBufferSize
MaxRuns == 2        \* consecutive runs of the operation on the same destination

\* ------------------------------------------------------- program constants
DefaultBufSize == 1048576

VARIABLES
    op,          \* "Copy" or "CopyMultipleSources"
    nsrc,        \* len(sources)
    files,       \* relative paths of the regular files of the sources
    dirs,        \* relative paths of the subdirectories of the sources
    owner,       \* owner[n]: the source whose root holds top-level entry n
    BufferSize,  \* cd.BufferSize
    preStale,    \* TRUE: the destination held an older copy before the run
    dstDirs,     \* directories existing under the destination (<<>> = root)
    dstFile,     \* content of the files existing under the destination
    opc,         \* position of the orchestrating call
    srcIdx,      \* CopyMultipleSources: next source of the counting loop
    totalFiles,  \* totalFiles of Copy / CopyMultipleSources
    result,      \* <<count, err>> returned by the orchestrating call
    chan,        \* progressChan: "none", "open" or "closed"
    closes,      \* number of close(progressChan) executed
    sent,        \* number of completed sends on progressChan
    cpc,         \* position of the consumer goroutine
    bar,         \* the progress bar: [total, added, finished]
    calls,       \* calls[c]: locals of the CopyFilesAndDirectory call c
    mwg,         \* waitGroup of CopyMultipleSources
    errChan,     \* errChan of CopyMultipleSources (buffered)
    countChan,   \* countChan of CopyMultipleSources (buffered)
    faulted,     \* errors raised so far by failing system calls
    copied,      \* files whose byte transfer completed without error
    panicked,    \* TRUE once a goroutine panicked (the process is dead)
    run,         \* number of the run in progress: 1..MaxRuns
    first        \* the destination and the results left by the run before

vars == <<op, nsrc, files, dirs, owner, BufferSize, preStale, dstDirs, dstFile,
          opc, srcIdx, totalFiles, result, chan, closes, sent, cpc, bar, calls,
          mwg, errChan, countChan, faulted, copied, panicked, run, first>>

inputVars == <<op, nsrc, files, dirs, owner, BufferSize, preStale>>
runVars == <<run, first>>

\* ------------------------------------------------------------------- paths
Names == 1..MaxName
Paths == UNION {[1..n -> Names] : n \in 1..MaxDepth}
Parent(p) == SubSeq(p, 1, Len(p) - 1)
Under(d, q) == Len(q) > Len(d) /\ SubSeq(q, 1, Len(d)) = d
Prefixes(p) == {SubSeq(p, 1, n) : n \in 0..Len(p)}
Min(a, b) == IF a < b THEN a ELSE b

\* Errors.  nil is NoErr; an error names the failing call ("list": os.ReadDir
\* of CountFiles, "mkdir": os.MkdirAll, "readdir": os.ReadDir of
\* CopyFilesAndDirectory, "open": os.Open, "create": os.Create, "copy":
\* io.CopyBuffer), the source and the path it failed on.
NoErr == <<>>
Err(kind, s, p) == <<kind, s, p>>
FileFaultKinds == {"open", "create", "copy"}

\* Trees of at most k entries: an entry is added under the root or under a
\* directory already in the tree.
RECURSIVE TreesUpTo(_)
TreesUpTo(k) ==
    IF k = 0 THEN {[files |-> {}, dirs |-> {}]}
    ELSE LET prev == TreesUpTo(k - 1)
             Free(t) == {q \in Paths : /\ q \notin t.files \cup t.dirs
                                       /\ (Len(q) = 1 \/ Parent(q) \in t.dirs)}
         IN  prev
             \cup {[files |-> t.files \cup {q}, dirs |-> t.dirs] :
                     <<t, q>> \in {<<t, q>> \in prev \X Paths : q \in Free(t)}}
             \cup {[files |-> t.files, dirs |-> t.dirs \cup {q}] :
                     <<t, q>> \in {<<t, q>> \in prev \X Paths : q \in Free(t)}}

\* The bytes of source file p, and the bytes an older copy left at the
\* destination (longer than any source file).
SrcContent(p) == p
StaleContent == [i \in 1..(MaxDepth + 1) |-> 0]

\* ------------------------------------------------------- os.ReadDir (sorted)
\* The names listed for directory p of source s, in ascending order.
RECURSIVE EntriesFrom(_, _, _)
EntriesFrom(s, p, n) ==
    IF n > MaxName THEN <<>>
    ELSE LET q == Append(p, n)
             here == /\ q \in files \cup dirs
                     /\ (p = <<>> => owner[n] = s)
         IN  (IF here THEN <<n>> ELSE <<>>) \o EntriesFrom(s, p, n + 1)

Entries(s, p) == EntriesFrom(s, p, 1)

\* ---------------------------------------------------------------- CountFiles
\* CountFiles(directory): bad is the set of directories os.ReadDir fails on.
\* Returns <<count, err>>.
RECURSIVE CountFiles(_, _, _), CountLoop(_, _, _, _, _, _)
RECURSIVE CountLoopDirsToo(_, _, _, _, _, _)

\* CountLoop with a directory entry counted as one more file.
CountLoopDirsToo(s, p, es, i, count, bad) ==
    IF i > Len(es) THEN <<count, NoErr>>
    ELSE LET q == Append(p, es[i])
         IN  IF q \in dirs
             THEN LET sub == CountFiles(s, q, bad)
                  IN  IF sub[2] # NoErr THEN <<0, sub[2]>>
                      ELSE CountLoopDirsToo(s, p, es, i + 1, count + sub[1] + 1, bad)
             ELSE CountLoopDirsToo(s, p, es, i + 1, count + 1, bad)

\* The loop of CountFiles over the entries es of directory p, from entry i.
CountLoop(s, p, es, i, count, bad) ==
    IF i > Len(es) THEN <<count, NoErr>>
    ELSE LET q == Append(p, es[i])
         IN  IF q \in dirs
             THEN LET sub == CountFiles(s, q, bad)
                  IN  IF sub[2] # NoErr THEN <<0, sub[2]>>
                      ELSE CountLoop(s, p, es, i + 1, count + sub[1], bad)
             ELSE CountLoop(s, p, es, i + 1, count + 1, bad)

CountFiles(s, p, bad) ==
    IF p \in bad THEN <<0, Err("list", s, p)>>
    ELSE CountLoop(s, p, Entries(s, p), 1, 0, bad)

\* The directories a counting pass over source s lists.
SourceDirs(s) == {<<>>} \cup {d \in dirs : owner[d[1]] = s}
SourceFiles(s) == {f \in files : owner[f[1]] = s}

\* ------------------------------------------------------------- io.CopyBuffer
\* bufSize of CopyFilesAndDirectory.
BufSize == IF BufferSize > 0 THEN BufferSize ELSE DefaultBufSize

\* CopyBuffer writing only reads that filled the whole buffer.
RECURSIVE CopyBufferFullReads(_, _, _, _)
CopyBufferFullReads(written, remaining, bufSize, chunks) ==
    IF Len(remaining) < bufSize \/ chunks = 0 THEN <<written, remaining>>
    ELSE CopyBufferFullReads(written \o SubSeq(remaining, 1, bufSize),
                             SubSeq(remaining, bufSize + 1, Len(remaining)),
                             bufSize, chunks - 1)

\* The copy loop: reads up to bufSize bytes and writes them, until the source
\* is exhausted or, after chunks reads, the transfer fails.  Returns the bytes
\* written and what remains unread.
RECURSIVE CopyBuffer(_, _, _, _)
CopyBuffer(written, remaining, bufSize, chunks) ==
    IF remaining = <<>> \/ chunks = 0 THEN <<written, remaining>>
    ELSE LET n == Min(bufSize, Len(remaining))
         IN  CopyBuffer(written \o SubSeq(remaining, 1, n),
                        SubSeq(remaining, n + 1, Len(remaining)),
                        bufSize, chunks - 1)

\* os.Create opening an existing file without truncating it.
CreateNoTrunc(p) == IF p \in DOMAIN dstFile THEN dstFile ELSE (p :> <<>>) @@ dstFile

\* os.Create: the file exists afterwards and is empty (O_TRUNC).
Create(p) == (p :> <<>>) @@ dstFile

\* os.MkdirAll: p and every missing parent exist afterwards.
MkdirAll(p) == dstDirs \cup Prefixes(p)

\* -------------------------------------------------------------------- calls
\* A call of CopyFilesAndDirectory is <<s, p>>: source s, relative path p of
\* the directory it copies (<<>> for the root call of the source).
CallIds == {<<s, p>> \in (1..nsrc) \X ({<<>>} \cup dirs) : p \in SourceDirs(s)}
IsRoot(c) == c[2] = <<>>
ParentCall(c) == <<c[1], Parent(c[2])>>
InSubtree(c, q) == Under(c[2], q) /\ owner[q[1]] = c[1]

NewCall == [pc |-> "idle", idx |-> 1, fileCount |-> 0, firstErr |-> NoErr,
            wg |-> 0, countMutex |-> FALSE, errorMutex |-> FALSE,
            ret |-> <<0, NoErr>>, slot |-> NoErr]

ReturnedPcs == {"returned", "merging", "counted", "recording", "reported",
                "finishing", "done"}
Returned(c) == calls[c].pc \in ReturnedPcs
Running(c) == calls[c].pc \notin ReturnedPcs \cup {"idle"}

FaultAllowed == Cardinality(faulted) < MaxFaults

\* The errors raised so far under the directory of call c.
FaultsUnder(c) ==
    {e \in faulted : e[2] = c[1] /\ (e[3] = c[2] \/ Under(c[2], e[3]))}

\* The destination before the run: absent, or an older copy of the sources.
InitialDstDirs == IF preStale THEN {<<>>} \cup dirs ELSE {}
InitialDstFile == IF preStale THEN [f \in files |-> StaleContent] ELSE <<>>

\* What is remembered of a run when the operation is run again.
NoRun == [dirs |-> {}, file |-> <<>>, result |-> <<0, NoErr>>, rets |-> <<>>]

\* --------------------------------------------------------------------- Init
Init ==
    /\ op \in {"Copy", "CopyMultipleSources"}
    /\ nsrc \in 1..MaxSources
    /\ op = "Copy" => nsrc = 1
    /\ \E t \in TreesUpTo(MaxEntries) : files = t.files /\ dirs = t.dirs
    /\ owner \in [Names -> 1..nsrc]
    /\ \A n \in Names : <<n>> \notin files \cup dirs => owner[n] = 1
    /\ BufferSize \in 0..MaxBufferSize
    /\ preStale \in BOOLEAN
    /\ dstDirs = InitialDstDirs
    /\ dstFile = InitialDstFile
    /\ opc = "count"
    /\ srcIdx = 1
    /\ totalFiles = 0
    /\ result = <<0, NoErr>>
    /\ chan = "none"
    /\ closes = 0
    /\ sent = 0
    /\ cpc = "none"
    /\ bar = [total |-> 0, added |-> 0, finished |-> FALSE]
    /\ calls = [c \in CallIds |-> NewCall]
    /\ mwg = 0
    /\ errChan = <<>>
    /\ countChan = <<>>
    /\ faulted = {}
    /\ copied = {}
    /\ panicked = FALSE
    /\ run = 1
    /\ first = NoRun

\* ------------------------------------------------- CopyFilesAndDirectory
\* What each action leaves alone.
orchVars == <<opc, srcIdx, totalFiles, result, mwg, errChan, countChan>>
chanVars == <<chan, closes, sent, cpc, bar>>
fsVars == <<dstDirs, dstFile>>

EntryPath(c) == Append(c[2], Entries(c[1], c[2])[calls[c].idx])

\* The position after the loop has consumed entries 1..i-1: the next
\* iteration, or waitGroup.Wait() after the last entry.
LoopPc(c, i) == IF i > Len(Entries(c[1], c[2])) THEN "wait" ELSE "loop"

\* return count, err.  The early returns of the file branch read fileCount
\* without countMutex; the goroutines write it in one locked store
\* (GoAddCount), so the read yields the value before or after that store,
\* which are the two orders in which the steps can be taken.  slot records
\* what firstErr held at the return.
Return(c, count, err) ==
    [calls[c] EXCEPT !.pc = "returned", !.ret = <<count, err>>,
                     !.slot = calls[c].firstErr]

\* CFADStart returning at once when the destination directory exists.
CFADStartSkipExisting(c) ==
    /\ ~panicked
    /\ calls[c].pc = "start"
    /\ \/ /\ c[2] \in dstDirs
          /\ calls' = [calls EXCEPT ![c] = Return(c, 0, NoErr)]
          /\ UNCHANGED <<dstDirs, faulted>>
       \/ /\ c[2] \notin dstDirs
          /\ dstDirs' = MkdirAll(c[2])
          /\ calls' = [calls EXCEPT ![c].pc = LoopPc(c, 1)]
          /\ UNCHANGED faulted
       \/ /\ c[2] \notin dstDirs
          /\ FaultAllowed
          /\ faulted' = faulted \cup {Err("mkdir", c[1], c[2])}
          /\ calls' = [calls EXCEPT ![c] = Return(c, 0, Err("mkdir", c[1], c[2]))]
          /\ UNCHANGED dstDirs
       \/ /\ c[2] \notin dstDirs
          /\ FaultAllowed
          /\ dstDirs' = MkdirAll(c[2])
          /\ faulted' = faulted \cup {Err("readdir", c[1], c[2])}
          /\ calls' = [calls EXCEPT ![c] = Return(c, 0, Err("readdir", c[1], c[2]))]
    /\ UNCHANGED <<inputVars, runVars, orchVars, chanVars, dstFile, copied, panicked>>

\* os.Stat / os.MkdirAll of the destination, then os.ReadDir of the source.
CFADStart(c) ==
    /\ ~panicked
    /\ calls[c].pc = "start"
    /\ \/ /\ dstDirs' = IF c[2] \in dstDirs THEN dstDirs ELSE MkdirAll(c[2])
          /\ calls' = [calls EXCEPT ![c].pc = LoopPc(c, 1)]
          /\ UNCHANGED faulted
       \/ /\ c[2] \notin dstDirs
          /\ FaultAllowed
          /\ faulted' = faulted \cup {Err("mkdir", c[1], c[2])}
          /\ calls' = [calls EXCEPT ![c] = Return(c, 0, Err("mkdir", c[1], c[2]))]
          /\ UNCHANGED dstDirs
       \/ /\ FaultAllowed
          /\ dstDirs' = IF c[2] \in dstDirs THEN dstDirs ELSE MkdirAll(c[2])
          /\ faulted' = faulted \cup {Err("readdir", c[1], c[2])}
          /\ calls' = [calls EXCEPT ![c] = Return(c, 0, Err("readdir", c[1], c[2]))]
    /\ UNCHANGED <<inputVars, runVars, orchVars, chanVars, dstFile, copied, panicked>>

\* A directory entry: waitGroup.Add(1) and go func(src, dst).
CFADDispatch(c) ==
    /\ ~panicked
    /\ calls[c].pc = "loop"
    /\ EntryPath(c) \in dirs
    /\ calls' = [calls EXCEPT ![c].wg = @ + 1,
                              ![c].idx = @ + 1,
                              ![c].pc = LoopPc(c, calls[c].idx + 1),
                              ![<<c[1], EntryPath(c)>>].pc = "start"]
    /\ UNCHANGED <<inputVars, runVars, orchVars, chanVars, fsVars, faulted, copied, panicked>>

\* CFADOpenCreate going on with the next entry when the file cannot be opened
\* or created.
CFADOpenCreateSkip(c) ==
    /\ ~panicked
    /\ calls[c].pc = "loop"
    /\ EntryPath(c) \in files
    /\ \/ /\ dstFile' = Create(EntryPath(c))
          /\ calls' = [calls EXCEPT ![c].pc = "copy"]
          /\ UNCHANGED faulted
       \/ /\ FaultAllowed
          /\ \E kind \in {"open", "create"} :
               faulted' = faulted \cup {Err(kind, c[1], EntryPath(c))}
          /\ calls' = [calls EXCEPT ![c].idx = @ + 1,
                                    ![c].pc = LoopPc(c, calls[c].idx + 1)]
          /\ UNCHANGED dstFile
    /\ UNCHANGED <<inputVars, runVars, orchVars, chanVars, dstDirs, copied, panicked>>

\* A file entry: os.Open the source, os.Create the destination.
CFADOpenCreate(c) ==
    /\ ~panicked
    /\ calls[c].pc = "loop"
    /\ EntryPath(c) \in files
    /\ \/ /\ dstFile' = Create(EntryPath(c))
          /\ calls' = [calls EXCEPT ![c].pc = "copy"]
          /\ UNCHANGED faulted
       \/ /\ FaultAllowed
          /\ \E kind \in {"open", "create"} :
               /\ faulted' = faulted \cup {Err(kind, c[1], EntryPath(c))}
               /\ calls' = [calls EXCEPT ![c] =
                     Return(c, calls[c].fileCount, Err(kind, c[1], EntryPath(c)))]
          /\ UNCHANGED dstFile
    /\ UNCHANGED <<inputVars, runVars, orchVars, chanVars, dstDirs, copied, panicked>>

\* The bytes of file q after data was written to it from offset 0.
WriteAt0(q, data) ==
    (q :> data \o SubSeq(dstFile[q], Len(data) + 1, Len(dstFile[q]))) @@ dstFile

\* io.CopyBuffer with a buffer of bufSize bytes, then both files are closed.
CFADTransfer(c) ==
    /\ ~panicked
    /\ calls[c].pc = "copy"
    /\ LET q == EntryPath(c)
           src == SrcContent(q)
       IN  \/ /\ dstFile' = WriteAt0(q, CopyBuffer(<<>>, src, BufSize, Len(src) + 1)[1])
              /\ copied' = copied \cup {q}
              /\ calls' = [calls EXCEPT ![c].pc = "send"]
              /\ UNCHANGED faulted
           \/ /\ FaultAllowed
              /\ \E k \in 0..Len(src) :
                   dstFile' = WriteAt0(q, CopyBuffer(<<>>, src, BufSize, k)[1])
              /\ faulted' = faulted \cup {Err("copy", c[1], q)}
              /\ calls' = [calls EXCEPT ![c] =
                    Return(c, calls[c].fileCount, Err("copy", c[1], q))]
              /\ UNCHANGED copied
    /\ UNCHANGED <<inputVars, runVars, orchVars, chanVars, dstDirs, panicked>>

\* progressChan <- struct{}{} : the channel is unbuffered, the send completes
\* together with the consumer's receive.
CFADSend(c) ==
    /\ ~panicked
    /\ calls[c].pc = "send"
    /\ chan = "open"
    /\ cpc = "recv"
    /\ sent' = sent + 1
    /\ cpc' = "add"
    /\ calls' = [calls EXCEPT ![c].pc = "inc"]
    /\ UNCHANGED <<inputVars, runVars, orchVars, chan, closes, bar, fsVars, faulted, copied, panicked>>

\* The send on a closed channel panics, also when the sender was already
\* blocked in it when the channel was closed.
CFADSendClosed(c) ==
    /\ ~panicked
    /\ calls[c].pc = "send"
    /\ chan = "closed"
    /\ panicked' = TRUE
    /\ UNCHANGED <<inputVars, runVars, orchVars, chanVars, fsVars, calls, faulted, copied>>

\* countMutex.Lock()
CFADLock(c) ==
    /\ ~panicked
    /\ calls[c].pc = "inc"
    /\ ~calls[c].countMutex
    /\ calls' = [calls EXCEPT ![c].countMutex = TRUE, ![c].pc = "incLocked"]
    /\ UNCHANGED <<inputVars, runVars, orchVars, chanVars, fsVars, faulted, copied, panicked>>

\* CFADIncrement adding two.
CFADIncrementTwice(c) ==
    /\ ~panicked
    /\ calls[c].pc = "incLocked"
    /\ calls' = [calls EXCEPT ![c].fileCount = @ + 2,
                              ![c].countMutex = FALSE,
                              ![c].idx = @ + 1,
                              ![c].pc = LoopPc(c, calls[c].idx + 1)]
    /\ UNCHANGED <<inputVars, runVars, orchVars, chanVars, fsVars, faulted, copied, panicked>>

\* fileCount++ ; countMutex.Unlock()
CFADIncrement(c) ==
    /\ ~panicked
    /\ calls[c].pc = "incLocked"
    /\ calls' = [calls EXCEPT ![c].fileCount = @ + 1,
                              ![c].countMutex = FALSE,
                              ![c].idx = @ + 1,
                              ![c].pc = LoopPc(c, calls[c].idx + 1)]
    /\ UNCHANGED <<inputVars, runVars, orchVars, chanVars, fsVars, faulted, copied, panicked>>

\* waitGroup.Wait() ; return fileCount, firstErr
CFADWait(c) ==
    /\ ~panicked
    /\ calls[c].pc = "wait"
    /\ calls[c].wg = 0
    /\ calls' = [calls EXCEPT ![c] = Return(c, calls[c].fileCount, calls[c].firstErr)]
    /\ UNCHANGED <<inputVars, runVars, orchVars, chanVars, fsVars, faulted, copied, panicked>>

\* ------------------------------- the goroutine of a subdirectory (lines 77-91)
\* countMutex.Lock() of the parent call, after the recursive call returned.
GoLockCount(c) ==
    /\ ~panicked
    /\ ~IsRoot(c)
    /\ calls[c].pc = "returned"
    /\ ~calls[ParentCall(c)].countMutex
    /\ calls' = [calls EXCEPT ![ParentCall(c)].countMutex = TRUE,
                              ![c].pc = "merging"]
    /\ UNCHANGED <<inputVars, runVars, orchVars, chanVars, fsVars, faulted, copied, panicked>>

\* GoAddCount storing the subdirectory's count instead of adding it.
GoAddCountOverwrite(c) ==
    /\ ~panicked
    /\ calls[c].pc = "merging"
    /\ calls' = [calls EXCEPT
          ![ParentCall(c)].fileCount = calls[c].ret[1],
          ![ParentCall(c)].countMutex = FALSE,
          ![c].pc = IF calls[c].ret[2] = NoErr THEN "finishing" ELSE "counted"]
    /\ UNCHANGED <<inputVars, runVars, orchVars, chanVars, fsVars, faulted, copied, panicked>>

\* fileCount += count ; countMutex.Unlock() ; with err == nil the body of the
\* goroutine ends here, its deferred waitGroup.Done() is still to run.
GoAddCount(c) ==
    /\ ~panicked
    /\ calls[c].pc = "merging"
    /\ calls' = [calls EXCEPT
          ![ParentCall(c)].fileCount = @ + calls[c].ret[1],
          ![ParentCall(c)].countMutex = FALSE,
          ![c].pc = IF calls[c].ret[2] = NoErr THEN "finishing" ELSE "counted"]
    /\ UNCHANGED <<inputVars, runVars, orchVars, chanVars, fsVars, faulted, copied, panicked>>

\* errorMutex.Lock()
GoLockErr(c) ==
    /\ ~panicked
    /\ calls[c].pc = "counted"
    /\ ~calls[ParentCall(c)].errorMutex
    /\ calls' = [calls EXCEPT ![ParentCall(c)].errorMutex = TRUE,
                              ![c].pc = "recording"]
    /\ UNCHANGED <<inputVars, runVars, orchVars, chanVars, fsVars, faulted, copied, panicked>>

\* GoRecordErr with the test of the slot inverted: nothing is ever recorded.
GoRecordErrInverted(c) ==
    /\ ~panicked
    /\ calls[c].pc = "recording"
    /\ calls' = [calls EXCEPT
          ![ParentCall(c)].firstErr = IF @ # NoErr THEN calls[c].ret[2] ELSE @,
          ![ParentCall(c)].errorMutex = FALSE,
          ![c].pc = "finishing"]
    /\ UNCHANGED <<inputVars, runVars, orchVars, chanVars, fsVars, faulted, copied, panicked>>

\* if firstErr == nil { firstErr = err } ; errorMutex.Unlock()
GoRecordErr(c) ==
    /\ ~panicked
    /\ calls[c].pc = "recording"
    /\ calls' = [calls EXCEPT
          ![ParentCall(c)].firstErr = IF @ = NoErr THEN calls[c].ret[2] ELSE @,
          ![ParentCall(c)].errorMutex = FALSE,
          ![c].pc = "finishing"]
    /\ UNCHANGED <<inputVars, runVars, orchVars, chanVars, fsVars, faulted, copied, panicked>>

\* defer waitGroup.Done() : runs when the body of the goroutine has ended.
GoDone(c) ==
    /\ ~panicked
    /\ ~IsRoot(c)
    /\ calls[c].pc = "finishing"
    /\ calls' = [calls EXCEPT ![ParentCall(c)].wg = @ - 1,
                              ![c].pc = "done"]
    /\ UNCHANGED <<inputVars, runVars, orchVars, chanVars, fsVars, faulted, copied, panicked>>

\* ----------------------------------------------------------- the progress bar
\* for range progressChan { bar.Add(1) } : the receive is part of CFADSend.
ConsumerAdd ==
    /\ ~panicked
    /\ cpc = "add"
    /\ bar' = [bar EXCEPT !.added = @ + 1]
    /\ cpc' = "recv"
    /\ UNCHANGED <<inputVars, runVars, orchVars, chan, closes, sent, fsVars, calls,
                   faulted, copied, panicked>>

\* The range loop ends once the channel is closed.
ConsumerExit ==
    /\ ~panicked
    /\ cpc = "recv"
    /\ chan = "closed"
    /\ cpc' = "done"
    /\ UNCHANGED <<inputVars, runVars, orchVars, chan, closes, sent, bar, fsVars, calls,
                   faulted, copied, panicked>>

\* The outcomes of a counting pass over source s: every directory lists, or
\* os.ReadDir fails on one directory of the tree.
CountOutcomes(s) ==
    {CountFiles(s, <<>>, {})}
    \cup (IF FaultAllowed
          THEN {CountFiles(s, <<>>, {d}) : d \in SourceDirs(s)}
          ELSE {})

\* ---------------------------------------------------------------------- Copy
RootCall == <<1, <<>>>>

\* CountFiles(source); on success the bar, the channel and the consumer are
\* set up and CopyFilesAndDirectory(source, destination, progressChan) starts.
CopyCount ==
    /\ ~panicked
    /\ op = "Copy"
    /\ opc = "count"
    /\ \E r \in CountOutcomes(1) :
         IF r[2] # NoErr
         THEN /\ result' = <<0, r[2]>>
              /\ opc' = "done"
              /\ faulted' = faulted \cup {r[2]}
              /\ UNCHANGED <<totalFiles, bar, chan, cpc, calls>>
         ELSE /\ totalFiles' = r[1]
              /\ bar' = [total |-> r[1], added |-> 0, finished |-> FALSE]
              /\ chan' = "open"
              /\ cpc' = "recv"
              /\ calls' = [calls EXCEPT ![RootCall].pc = "start"]
              /\ opc' = "await"
              /\ UNCHANGED <<result, faulted>>
    /\ UNCHANGED <<inputVars, runVars, srcIdx, mwg, errChan, countChan, closes, sent,
                   fsVars, copied, panicked>>

\* CopyClose with the error return taken before the close.
CopyCloseAfterErrCheck ==
    /\ ~panicked
    /\ op = "Copy"
    /\ opc = "await"
    /\ calls[RootCall].pc = "returned"
    /\ chan' = IF calls[RootCall].ret[2] = NoErr THEN "closed" ELSE chan
    /\ closes' = IF calls[RootCall].ret[2] = NoErr THEN closes + 1 ELSE closes
    /\ opc' = "closed"
    /\ UNCHANGED <<inputVars, runVars, srcIdx, totalFiles, result, mwg, errChan, countChan,
                   sent, cpc, bar, fsVars, calls, faulted, copied, panicked>>

\* close(progressChan), once CopyFilesAndDirectory has returned.
CopyClose ==
    /\ ~panicked
    /\ op = "Copy"
    /\ opc = "await"
    /\ calls[RootCall].pc = "returned"
    /\ chan' = "closed"
    /\ closes' = closes + 1
    /\ opc' = "closed"
    /\ UNCHANGED <<inputVars, runVars, srcIdx, totalFiles, result, mwg, errChan, countChan,
                   sent, cpc, bar, fsVars, calls, faulted, copied, panicked>>

\* CopyReturn with bar.Finish() called before the error is looked at.
CopyReturnAlwaysFinish ==
    /\ ~panicked
    /\ op = "Copy"
    /\ opc = "closed"
    /\ result' = calls[RootCall].ret
    /\ bar' = [bar EXCEPT !.finished = TRUE]
    /\ opc' = "done"
    /\ UNCHANGED <<inputVars, runVars, srcIdx, totalFiles, mwg, errChan, countChan,
                   chan, closes, sent, cpc, fsVars, calls, faulted, copied, panicked>>

\* if err != nil { return fileCount, err } ; bar.Finish() ; return fileCount, nil
CopyReturn ==
    /\ ~panicked
    /\ op = "Copy"
    /\ opc = "closed"
    /\ result' = calls[RootCall].ret
    /\ bar' = [bar EXCEPT !.finished = (calls[RootCall].ret[2] = NoErr)]
    /\ opc' = "done"
    /\ UNCHANGED <<inputVars, runVars, srcIdx, totalFiles, mwg, errChan, countChan,
                   chan, closes, sent, cpc, fsVars, calls, faulted, copied, panicked>>

\* ------------------------------------------------------- CopyMultipleSources
\* CMSCount carrying on with the next source after a failed count.
CMSCountIgnoreErr ==
    /\ ~panicked
    /\ op = "CopyMultipleSources"
    /\ opc = "count"
    /\ \E r \in CountOutcomes(srcIdx) :
         /\ totalFiles' = totalFiles + r[1]
         /\ srcIdx' = srcIdx + 1
         /\ opc' = IF srcIdx + 1 > nsrc THEN "setup" ELSE "count"
         /\ faulted' = IF r[2] # NoErr THEN faulted \cup {r[2]} ELSE faulted
         /\ UNCHANGED result
    /\ UNCHANGED <<inputVars, runVars, mwg, errChan, countChan, chanVars, fsVars, calls,
                   copied, panicked>>

\* One iteration of the counting loop.
CMSCount ==
    /\ ~panicked
    /\ op = "CopyMultipleSources"
    /\ opc = "count"
    /\ \E r \in CountOutcomes(srcIdx) :
         IF r[2] # NoErr
         THEN /\ result' = <<0, r[2]>>
              /\ opc' = "done"
              /\ faulted' = faulted \cup {r[2]}
              /\ UNCHANGED <<totalFiles, srcIdx>>
         ELSE /\ totalFiles' = totalFiles + r[1]
              /\ srcIdx' = srcIdx + 1
              /\ opc' = IF srcIdx + 1 > nsrc THEN "setup" ELSE "count"
              /\ UNCHANGED <<result, faulted>>
    /\ UNCHANGED <<inputVars, runVars, mwg, errChan, countChan, chanVars, fsVars, calls,
                   copied, panicked>>

\* The bar, the channel and the consumer; os.Stat / os.MkdirAll of the
\* destination; then one goroutine per source.
CMSSetup ==
    /\ ~panicked
    /\ op = "CopyMultipleSources"
    /\ opc = "setup"
    /\ bar' = [total |-> totalFiles, added |-> 0, finished |-> FALSE]
    /\ cpc' = "recv"
    /\ \/ /\ dstDirs' = IF <<>> \in dstDirs THEN dstDirs ELSE MkdirAll(<<>>)
          /\ chan' = "open"
          /\ calls' = [c \in DOMAIN calls |->
                         IF IsRoot(c) THEN [calls[c] EXCEPT !.pc = "start"]
                         ELSE calls[c]]
          /\ mwg' = nsrc
          /\ opc' = "wait"
          /\ UNCHANGED <<result, faulted, closes>>
       \/ /\ <<>> \notin dstDirs
          /\ FaultAllowed
          /\ faulted' = faulted \cup {Err("mkdir", 0, <<>>)}
          /\ chan' = "closed"
          /\ closes' = closes + 1
          /\ result' = <<0, Err("mkdir", 0, <<>>)>>
          /\ opc' = "done"
          /\ UNCHANGED <<dstDirs, calls, mwg>>
    /\ UNCHANGED <<inputVars, runVars, srcIdx, totalFiles, errChan, countChan, sent,
                   dstFile, copied, panicked>>

\* SrcReport sending the count only when the source met no error.
SrcReportCountOnSuccess(c) ==
    /\ ~panicked
    /\ op = "CopyMultipleSources"
    /\ IsRoot(c)
    /\ calls[c].pc = "returned"
    /\ countChan' = IF calls[c].ret[2] = NoErr THEN Append(countChan, calls[c].ret[1])
                    ELSE countChan
    /\ calls' = [calls EXCEPT
          ![c].pc = IF calls[c].ret[2] = NoErr THEN "finishing" ELSE "reported"]
    /\ UNCHANGED <<inputVars, runVars, opc, srcIdx, totalFiles, result, mwg, errChan,
                   chanVars, fsVars, faulted, copied, panicked>>

\* The goroutine of a source after its CopyFilesAndDirectory returned:
\* countChan <- count (buffered for len(sources) values, never blocks).
SrcReport(c) ==
    /\ ~panicked
    /\ op = "CopyMultipleSources"
    /\ IsRoot(c)
    /\ calls[c].pc = "returned"
    /\ countChan' = Append(countChan, calls[c].ret[1])
    /\ calls' = [calls EXCEPT
          ![c].pc = IF calls[c].ret[2] = NoErr THEN "finishing" ELSE "reported"]
    /\ UNCHANGED <<inputVars, runVars, opc, srcIdx, totalFiles, result, mwg, errChan,
                   chanVars, fsVars, faulted, copied, panicked>>

\* if err != nil { errChan <- err }
SrcReportErr(c) ==
    /\ ~panicked
    /\ op = "CopyMultipleSources"
    /\ IsRoot(c)
    /\ calls[c].pc = "reported"
    /\ errChan' = Append(errChan, calls[c].ret[2])
    /\ calls' = [calls EXCEPT ![c].pc = "finishing"]
    /\ UNCHANGED <<inputVars, runVars, opc, srcIdx, totalFiles, result, mwg, countChan,
                   chanVars, fsVars, faulted, copied, panicked>>

\* defer waitGroup.Done() of the goroutine of a source.
SrcDone(c) ==
    /\ ~panicked
    /\ op = "CopyMultipleSources"
    /\ IsRoot(c)
    /\ calls[c].pc = "finishing"
    /\ mwg' = mwg - 1
    /\ calls' = [calls EXCEPT ![c].pc = "done"]
    /\ UNCHANGED <<inputVars, runVars, opc, srcIdx, totalFiles, result, errChan,
                   countChan, chanVars, fsVars, faulted, copied, panicked>>

\* waitGroup.Wait() ; close(progressChan) ; close(errChan) ; close(countChan)
CMSClose ==
    /\ ~panicked
    /\ op = "CopyMultipleSources"
    /\ opc = "wait"
    /\ mwg = 0
    /\ chan' = "closed"
    /\ closes' = closes + 1
    /\ opc' = "closed"
    /\ UNCHANGED <<inputVars, runVars, srcIdx, totalFiles, result, mwg, errChan, countChan,
                   sent, cpc, bar, fsVars, calls, faulted, copied, panicked>>

RECURSIVE SumSeq(_)
SumSeq(q) == IF q = <<>> THEN 0 ELSE Head(q) + SumSeq(Tail(q))

\* The counts are summed, bar.Finish(), and the first error queued in errChan
\* is returned if there is one.
CMSReturn ==
    /\ ~panicked
    /\ op = "CopyMultipleSources"
    /\ opc = "closed"
    /\ bar' = [bar EXCEPT !.finished = TRUE]
    /\ result' = <<SumSeq(countChan),
                   IF Len(errChan) > 0 THEN Head(errChan) ELSE NoErr>>
    /\ opc' = "done"
    /\ UNCHANGED <<inputVars, runVars, srcIdx, totalFiles, mwg, errChan, countChan,
                   chan, closes, sent, cpc, fsVars, calls, faulted, copied, panicked>>

\* --------------------------------------------------------------------- Next
Next ==
    \/ CopyCount
    \/ CopyClose
    \/ CopyReturn
    \/ CMSCount
    \/ CMSSetup
    \/ CMSClose
    \/ CMSReturn
    \/ ConsumerAdd
    \/ ConsumerExit
    \/ \E c \in DOMAIN calls : CFADStart(c)
    \/ \E c \in DOMAIN calls : CFADDispatch(c)
    \/ \E c \in DOMAIN calls : CFADOpenCreate(c)
    \/ \E c \in DOMAIN calls : CFADTransfer(c)
    \/ \E c \in DOMAIN calls : CFADSend(c)
    \/ \E c \in DOMAIN calls : CFADSendClosed(c)
    \/ \E c \in DOMAIN calls : CFADLock(c)
    \/ \E c \in DOMAIN calls : CFADIncrement(c)
    \/ \E c \in DOMAIN calls : CFADWait(c)
    \/ \E c \in DOMAIN calls : GoLockCount(c)
    \/ \E c \in DOMAIN calls : GoAddCount(c)
    \/ \E c \in DOMAIN calls : GoLockErr(c)
    \/ \E c \in DOMAIN calls : GoRecordErr(c)
    \/ \E c \in DOMAIN calls : GoDone(c)
    \/ \E c \in DOMAIN calls : SrcReport(c)
    \/ \E c \in DOMAIN calls : SrcReportErr(c)
    \/ \E c \in DOMAIN calls : SrcDone(c)

Spec == Init /\ [][Next]_vars

\* ------------------------------------------------------------ a second run
\* The operation is called again with the same sources and destination, after
\* a run that met no failure has returned and its goroutines have ended.  The
\* destination is what the run left; every local of the run starts afresh.
Again ==
    /\ ~panicked
    /\ run < MaxRuns
    /\ opc = "done"
    /\ faulted = {}
    /\ cpc = "done"
    /\ \A c \in DOMAIN calls : calls[c].pc \in {"idle", "returned", "done"}
    /\ run' = run + 1
    /\ first' = [dirs |-> dstDirs, file |-> dstFile, result |-> result,
                 rets |-> [c \in {d \in DOMAIN calls : IsRoot(d)} |-> calls[c].ret]]
    /\ opc' = "count"
    /\ srcIdx' = 1
    /\ totalFiles' = 0
    /\ result' = <<0, NoErr>>
    /\ chan' = "none"
    /\ closes' = 0
    /\ sent' = 0
    /\ cpc' = "none"
    /\ bar' = [total |-> 0, added |-> 0, finished |-> FALSE]
    /\ calls' = [c \in CallIds |-> NewCall]
    /\ mwg' = 0
    /\ errChan' = <<>>
    /\ countChan' = <<>>
    /\ copied' = {}
    /\ UNCHANGED <<inputVars, fsVars, faulted, panicked>>

NextRerun ==
    \/ Next
    \/ Again

\* The first of the runs starts on an absent destination.
InitRerun == Init /\ ~preStale

SpecRerun == InitRerun /\ [][NextRerun]_vars

\* ==================================================================== claims
FilesUnder(c) == {f \in files : InSubtree(c, f)}
DirsUnder(c) == {d \in dirs : InSubtree(c, d)}
CopiedUnder(c) == {f \in copied : InSubtree(c, f)}
FileFaultsUnder(c) == {e \in FaultsUnder(c) : e[1] \in FileFaultKinds}
CountFailed == \E e \in faulted : e[1] = "list"

\* C1: the count a CopyFilesAndDirectory call has returned equals the number
\* of files of its subtree whose copy succeeded: none counted twice, none
\* lost, also when an error is returned.
C1_CountIsExact ==
    \A c \in DOMAIN calls :
        Returned(c) => calls[c].ret[1] = Cardinality(CopiedUnder(c))

\* C2: nothing is sent on the progress channel after it was closed: when it is
\* closed no copier call is still running, and no send finds it closed.
C2_NoSendAfterClose ==
    /\ ~panicked
    /\ chan = "closed" => \A c \in DOMAIN calls : ~Running(c)

\* C3: a call that has returned has no dispatched subdirectory task still
\* running (its waitGroup is at zero).
C3_ReturnAfterSubtasks ==
    \A c \in DOMAIN calls : Returned(c) => calls[c].wg = 0

\* C4: a call under whose directory no I/O failure happened returns the count
\* CountFiles gives for that directory, and no error; Copy passes both on, and
\* the count is the total of its counting pass.
C4_CountMatchesCountFiles ==
    /\ \A c \in DOMAIN calls :
         (Returned(c) /\ FaultsUnder(c) = {})
            => calls[c].ret = <<CountFiles(c[1], c[2], {})[1], NoErr>>
    /\ (op = "Copy" /\ opc = "done" /\ faulted = {})
            => result = <<totalFiles, NoErr>> /\ result = calls[RootCall].ret

C4_Witness ==
    /\ op = "Copy"
    /\ opc = "done"
    /\ faulted = {}
    /\ result[1] = 2
    /\ \E f \in files : Len(f) = 2

\* C5: CountFiles of a listable tree returns the number of its non-directory
\* entries, whatever their depth, and no error; the totals of the counting
\* passes of Copy and CopyMultipleSources are those numbers.
C5_CountFilesCountsFiles ==
    /\ \A s \in 1..nsrc :
         CountFiles(s, <<>>, {}) = <<Cardinality(SourceFiles(s)), NoErr>>
    /\ \A d \in dirs :
         CountFiles(owner[d[1]], d, {})
            = <<Cardinality(FilesUnder(<<owner[d[1]], d>>)), NoErr>>
    /\ (op = "Copy" /\ chan # "none") => totalFiles = Cardinality(files)
    /\ op = "CopyMultipleSources" =>
         totalFiles = Cardinality({f \in files : owner[f[1]] < srcIdx})

C5_Witness ==
    /\ op = "CopyMultipleSources"
    /\ opc = "setup"
    /\ totalFiles = 2
    /\ \E f \in files : Len(f) = 2 /\ owner[f[1]] = 2
    /\ \E f \in files : owner[f[1]] = 1

\* C6: when a call under whose directory no I/O failure happened has returned,
\* every directory of its subtree (empty ones included) and every file of it
\* exist at the destination, each file with the bytes of its source, and the
\* destination holds no other path; a subtree without files gives count 0
\* and no error.
C6_DestinationMatchesSource ==
    \A c \in DOMAIN calls :
        (Returned(c) /\ FaultsUnder(c) = {}) =>
            /\ c[2] \in dstDirs
            /\ DirsUnder(c) \subseteq dstDirs
            /\ \A f \in FilesUnder(c) :
                 f \in DOMAIN dstFile /\ dstFile[f] = SrcContent(f)
            /\ dstDirs \subseteq {<<>>} \cup dirs
            /\ DOMAIN dstFile \subseteq files
            /\ FilesUnder(c) = {} => calls[c].ret = <<0, NoErr>>

C6_Witness ==
    /\ op = "Copy"
    /\ Returned(RootCall)
    /\ faulted = {}
    /\ preStale
    /\ \E f \in files : Len(f) = 2 /\ dstFile[f] = SrcContent(f)
    /\ \E d \in dirs : FilesUnder(<<1, d>>) = {} /\ d \in dstDirs

\* C7: when exactly one file copy failed under the directory of a call, and
\* nothing else failed there, the call returns an error and a count between 0
\* and N-1, N being the number of files of its subtree.
C7_OneFailure ==
    \A c \in DOMAIN calls :
        ( /\ Returned(c)
          /\ Cardinality(FaultsUnder(c)) = 1
          /\ FileFaultsUnder(c) = FaultsUnder(c) )
        => /\ calls[c].ret[2] # NoErr
           /\ calls[c].ret[1] \in 0..(Cardinality(FilesUnder(c)) - 1)

C7_Witness ==
    /\ Returned(RootCall)
    /\ Cardinality(faulted) = 1
    /\ \E e \in faulted : e[1] = "copy" /\ Len(e[3]) = 2
                          /\ calls[RootCall].ret = <<1, e>>

\* C8: the progress channel is closed at most once, only by a step of the
\* orchestrating call, and an orchestrating call that got past its counting
\* pass has closed it when it returns.
C8_ClosedOnceByOrchestrator ==
    /\ [](/\ closes <= 1
          /\ (chan = "closed") <=> (closes = 1)
          /\ (opc = "done" /\ ~CountFailed) => closes = 1)
    /\ [][closes' # closes =>
            /\ closes' = closes + 1
            /\ opc \in {"await", "wait", "setup"}
            /\ opc' \in {"closed", "done"}
            /\ UNCHANGED calls]_vars

C8_Witness ==
    /\ op = "CopyMultipleSources"
    /\ opc = "done"
    /\ result = <<0, Err("mkdir", 0, <<>>)>>
    /\ closes = 1
    /\ cpc = "done"

\* C9: when a counting pass failed, the operation has returned 0 and that
\* error, and nothing was copied: the destination is as before, no copier call
\* was started, no channel or consumer exists and nothing was sent.
C9_CountFailureCopiesNothing ==
    CountFailed =>
        /\ opc = "done"
        /\ result[1] = 0
        /\ result[2] \in faulted /\ result[2][1] = "list"
        /\ \A c \in DOMAIN calls : calls[c].pc = "idle"
        /\ dstDirs = InitialDstDirs
        /\ dstFile = InitialDstFile
        /\ copied = {}
        /\ chan = "none" /\ cpc = "none" /\ sent = 0

C9_Witness ==
    /\ op = "CopyMultipleSources"
    /\ opc = "done"
    /\ srcIdx = 2
    /\ totalFiles > 0
    /\ result = <<0, Err("list", 2, <<2>>)>>

\* C10: the error a call returns is the first error recorded for it: when its
\* first-error slot held an error at the return, that error is returned.
C10_FirstErrorReturned ==
    \A c \in DOMAIN calls :
        (Returned(c) /\ calls[c].slot # NoErr) => calls[c].ret[2] = calls[c].slot

Roots == {c \in DOMAIN calls : IsRoot(c)}

RECURSIVE SumRootCounts(_)
SumRootCounts(s) ==
    IF s = 0 THEN 0 ELSE calls[<<s, <<>>>>].ret[1] + SumRootCounts(s - 1)

\* C11: once its source tasks were dispatched, CopyMultipleSources returns the
\* sum of the counts of all per-source calls, and an error exactly when one
\* of them returned an error, that error being one of theirs.
C11_SumAndOneError ==
    ( /\ op = "CopyMultipleSources"
      /\ opc = "done"
      /\ \A c \in Roots : calls[c].pc # "idle" )
    => /\ \A c \in Roots : calls[c].pc = "done"
       /\ result[1] = SumRootCounts(nsrc)
       /\ (result[2] # NoErr) <=> (\E c \in Roots : calls[c].ret[2] # NoErr)
       /\ result[2] # NoErr => \E c \in Roots : calls[c].ret[2] = result[2]

C11_Witness ==
    /\ op = "CopyMultipleSources"
    /\ opc = "done"
    /\ nsrc = 2
    /\ calls[<<2, <<>>>>].ret[1] = 1 /\ calls[<<2, <<>>>>].ret[2] # NoErr
    /\ calls[<<1, <<>>>>].ret = <<0, NoErr>>
    /\ result = calls[<<2, <<>>>>].ret

\* C12: sources without a common relative path, copied into one destination
\* with no I/O failure: when CopyMultipleSources has returned, every directory
\* and every file of every source is at the destination, each file with the
\* bytes of its source, and the returned total is the sum of CountFiles over
\* the sources.
C12_MultiSourceCopy ==
    ( /\ op = "CopyMultipleSources"
      /\ opc = "done"
      /\ faulted = {} )
    => /\ {<<>>} \cup dirs \subseteq dstDirs
       /\ \A f \in files : f \in DOMAIN dstFile /\ dstFile[f] = SrcContent(f)
       /\ result = <<Cardinality(files), NoErr>>
       /\ result[1] = totalFiles
       /\ result[1] = SumRootCounts(nsrc)
       /\ \A s \in 1..nsrc :
            calls[<<s, <<>>>>].ret[1] = CountFiles(s, <<>>, {})[1]

C12_Witness ==
    /\ op = "CopyMultipleSources"
    /\ opc = "done"
    /\ faulted = {}
    /\ files = {<<1>>, <<2>>}
    /\ owner[1] = 1 /\ owner[2] = 2
    /\ dstFile[<<1>>] = SrcContent(<<1>>) /\ dstFile[<<2>>] = SrcContent(<<2>>)
    /\ result = <<2, NoErr>>

\* C13: in Copy the bar is finished exactly when the copier call returned no
\* error: with an error Copy returns the count and the error and the bar is
\* never finished; otherwise the bar is finished, after the channel was
\* closed, and Copy returns the count and no error.
C13_FinishIffNoError ==
    op = "Copy" =>
        /\ bar.finished =>
             /\ opc = "done"
             /\ chan = "closed"
             /\ calls[RootCall].ret[2] = NoErr
        /\ (opc = "done" /\ ~CountFailed) =>
             /\ result = calls[RootCall].ret
             /\ bar.finished <=> (result[2] = NoErr)

C13_Witness ==
    /\ op = "Copy"
    /\ opc = "done"
    /\ result[1] = 1
    /\ result[2] # NoErr
    /\ ~bar.finished
    /\ chan = "closed"

\* C15: every run ends with the orchestrating call returned and every
\* dispatched copier call returned: where no step is possible any more,
\* nothing is left blocked or aborted.
C15_RunsToCompletion ==
    ~ENABLED Next =>
        /\ opc = "done"
        /\ \A c \in DOMAIN calls : calls[c].pc # "idle" => Returned(c)

Last(p) == p[Len(p)]

\* C16: once a file of a directory failed to open, to be created or to be
\* transferred, the call of that directory has returned that error and no
\* later entry of the directory is touched (a later file is not copied, a
\* later subdirectory is not dispatched); the subdirectories listed before
\* the file were dispatched and stay so.
C16_FailureStopsLevel ==
    \A e \in faulted :
        e[1] \in FileFaultKinds =>
            LET c == <<e[2], Parent(e[3])>>
                ents == Entries(c[1], c[2])
            IN  /\ Returned(c)
                /\ calls[c].ret[2] = e
                /\ ents[calls[c].idx] = Last(e[3])
                /\ \A j \in 1..Len(ents) :
                     LET q == Append(c[2], ents[j])
                     IN  /\ (j > calls[c].idx /\ q \in files) =>
                               /\ q \notin copied
                               /\ q \in DOMAIN dstFile =>
                                    preStale /\ dstFile[q] = StaleContent
                         /\ (j > calls[c].idx /\ q \in dirs) =>
                               calls[<<c[1], q>>].pc = "idle"
                         /\ (j < calls[c].idx /\ q \in dirs) =>
                               calls[<<c[1], q>>].pc # "idle"
                         /\ (j < calls[c].idx /\ q \in files) => q \in copied

C16_Witness ==
    /\ faulted = {Err("copy", 1, <<1, 1>>)}
    /\ <<1, 2>> \in files
    /\ calls[<<1, <<1>>>>].pc = "done"
    /\ Returned(RootCall)
    /\ opc = "done"

\* The sum of the function f over the finite set S.
RECURSIVE SumOver(_, _)
SumOver(S, f) ==
    IF S = {} THEN 0
    ELSE LET x == CHOOSE y \in S : TRUE IN f[x] + SumOver(S \ {x}, f)

\* The subdirectory calls of c whose count has been added to c's fileCount.
MergedChildren(c) ==
    {d \in DOMAIN calls : /\ ~IsRoot(d)
                          /\ ParentCall(d) = c
                          /\ calls[d].pc \in {"counted", "recording", "finishing", "done"}}
RetCount == [d \in DOMAIN calls |-> calls[d].ret[1]]

\* What call c added to its fileCount for its own files.
OwnIncrements(c) == calls[c].fileCount - SumOver(MergedChildren(c), RetCount)
BetweenSendAndIncrement == {c \in DOMAIN calls : calls[c].pc \in {"inc", "incLocked"}}
AtSend == {c \in DOMAIN calls : calls[c].pc = "send"}

\* C17: a file whose transfer succeeded gives one signal and then one
\* increment of its call's count, a file that failed gives neither: the
\* signals sent are the file increments of all calls plus the calls between
\* their send and their increment, and the files transferred are the signals
\* sent plus the calls about to send.
C17_OneSignalOneIncrement ==
    /\ sent = SumOver(DOMAIN calls, [c \in DOMAIN calls |-> OwnIncrements(c)])
                + Cardinality(BetweenSendAndIncrement)
    /\ Cardinality(copied) = sent + Cardinality(AtSend)
    /\ \A c \in DOMAIN calls :
         Cardinality({f \in copied : Parent(f) = c[2] /\ owner[f[1]] = c[1]})
           = OwnIncrements(c)
             + (IF c \in BetweenSendAndIncrement \cup AtSend THEN 1 ELSE 0)

C17_Witness ==
    /\ sent = 2
    /\ \E c \in BetweenSendAndIncrement : OwnIncrements(c) = 1
    /\ Cardinality(copied) = 2

\* C18: the consumer advances the bar once for every signal it received and
\* ends only after the channel was closed; every run ends with the consumer
\* ended and every signal sent turned into an advance.
C18_ConsumerDrains ==
    /\ bar.added + (IF cpc = "add" THEN 1 ELSE 0) = sent
    /\ cpc = "done" => chan = "closed"
    /\ ~ENABLED Next => (cpc \in {"none", "done"} /\ bar.added = sent)

\* C19: fileCount and firstErr of a call are written only by a step that
\* holds the mutex of that variable, and the owning call reads them for its
\* return only while no goroutine holds that mutex.
C19_SerializedAccess ==
    [][\A c \in DOMAIN calls :
         /\ calls'[c].fileCount # calls[c].fileCount => calls[c].countMutex
         /\ calls'[c].firstErr # calls[c].firstErr => calls[c].errorMutex
         /\ (calls[c].pc \in {"loop", "copy", "wait"} /\ calls'[c].pc = "returned")
              => ~calls[c].countMutex
         /\ (calls[c].pc = "wait" /\ calls'[c].pc = "returned")
              => ~calls[c].errorMutex]_vars

\* C20: a finished bar is not advanced any more, and when the operation
\* returned no error the bar was advanced as often as its total when it was
\* finished.
C20_BarCompleteAtFinish ==
    bar.finished =>
        /\ cpc # "add"
        /\ result[2] = NoErr => bar.added = bar.total

\* C14: a second run from the same unchanged sources to the same destination,
\* with no I/O failure in either run, leaves the destination with the paths
\* and the file contents the first run left, and returns the counts the first
\* run returned; a destination file is empty after its os.Create, whatever
\* the first run wrote to it.
C14_SecondRunSame ==
    run = 2 =>
        /\ \A c \in DOMAIN calls :
             calls[c].pc = "copy" => dstFile[EntryPath(c)] = <<>>
        /\ (opc = "done" /\ faulted = {}) =>
             /\ dstDirs = first.dirs
             /\ dstFile = first.file
             /\ \A f \in files :
                  f \in DOMAIN dstFile /\ dstFile[f] = SrcContent(f)
             /\ result = first.result
             /\ \A c \in Roots :
                  calls[c].pc # "idle" => calls[c].ret = first.rets[c]

C14_Witness ==
    /\ run = 2
    /\ opc = "done"
    /\ faulted = {}
    /\ result = <<2, NoErr>>
    /\ <<1, 1>> \in files
    /\ first.file = dstFile
    /\ dstFile[<<1, 1>>] = SrcContent(<<1, 1>>)

====
